---- MODULE Spec2Model ----
(***************************************************************************)
(* StaticGeodesicPlotter (einsteinpy/plotting/geodesics_static.py).        *)
(*                                                                         *)
(* Numbers.  Lengths are integers.  The sample points are chosen so that   *)
(* every quantity the plotter computes is an integer: r*cos(phi) and       *)
(* r*sin(phi) are exact (phi is 0, 270 or 53 degrees, the last standing    *)
(* for atan(4/3) with cos = 3/5 and sin = 4/5), sqrt(x*x + y*y) is exact   *)
(* and every bounding-box side is a multiple of 12.  Axis limits are kept  *)
(* in tenths (the margins are 0.1 and 0.2 of a span).  Floating-point      *)
(* rounding is not modelled.                                               *)
(***************************************************************************)
EXTENDS Integers, Sequences, FiniteSets, TLC

VARIABLES
    mass,                    \* self.mass
    ax_injected,             \* an ax was passed to the constructor (self.fig is then never set)
    attractor_radius_scale,  \* self.attractor_radius_scale
    attractor_present,       \* self._attractor_present
    xarr, yarr,              \* self.__xarr, self.__yarr
    get_curr_plot_radius,    \* self.get_curr_plot_radius
    patches,                 \* radii of the Circle patches added to self.ax, in order
    lines,                   \* the Line2D objects of self.ax, in order: [x, y, fmt]
    xlim, ylim,              \* pyplot axis limits, in tenths
    ani,                     \* self.ani: <<>> or <<[pic, pos_x, pos_y, frames]>>
    op,                      \* the operation that ran last
    outcome,                 \* "ok" or the exception it raised
    arg,                     \* <<>> or <<the (coords, end_lambda, step_size) it was given>>
    solved,                  \* the inputs of its solver invocations, in order
    log,                     \* its solver and backend events, in order
    drawnAt,                 \* for each patch, the <<xarr, yarr>> cached when it was drawn
    lastFrame,               \* <<>> or <<the frame index of the last _update>>
    aniArg,                  \* <<>> or <<the input of the animate call that made self.ani>>
    ncalls                   \* number of plot and animate calls made so far

vars == <<mass, ax_injected, attractor_radius_scale, attractor_present, xarr, yarr,
          get_curr_plot_radius, patches, lines, xlim, ylim, ani, op, outcome, arg,
          solved, log, drawnAt, lastFrame, aniArg, ncalls>>

-----------------------------------------------------------------------------
(* Bounds *)

MaxLambda == 2      \* largest end_lambda tried (= largest sample count)
MaxCalls == 2       \* plot and animate calls per plotter
MaxPatches == 2     \* discs on the surface beyond which no caller invokes plot_attractor itself

-----------------------------------------------------------------------------
(* Inputs *)

AUTO == -1          \* the sentinel attractor_radius_scale of "auto" mode

Masses == {1, 2}
Scales == {AUTO, 2}
Colors == {"#1f77b4", "notacolor"}
StartCoords == {<<300, 90, 53>>, <<12, 90, 0>>}   \* (r, theta, phi)
Inputs == [coords : StartCoords, end_lambda : 0..MaxLambda, step_size : {1}]

Min(a, b) == IF a <= b THEN a ELSE b
Max(a, b) == IF a >= b THEN a ELSE b
Abs(a) == IF a < 0 THEN -a ELSE a

-----------------------------------------------------------------------------
(* Collaborators *)

\* The Schwarzschild radius of a mass: proportional to it (about 3 km per solar mass).
schwarzschild_radius(m) == 3 * m

\* The position that follows a position on the modelled geodesic.
NextPos(c) ==
    CASE c = <<300, 90, 53>> -> <<24, 90, 270>>
      [] c = <<24, 90, 270>> -> <<12, 90, 0>>
      [] OTHER -> <<300, 90, 53>>

RECURSIVE PosAt(_, _)
PosAt(c, i) == IF i <= 1 THEN c ELSE NextPos(PosAt(c, i - 1))

\* Schwarzschild.calculate_trajectory(...)[1]: a deterministic function of its
\* inputs, the sequence of (lambda, r, theta, phi) samples.
calculate_trajectory(inp) ==
    [i \in 1..(inp.end_lambda \div inp.step_size) |->
        LET p == PosAt(inp.coords, i)
        IN  <<(i - 1) * inp.step_size, p[1], p[2], p[3]>>]

\* 5*cos(phi) and 5*sin(phi) of the angles used.
Cos5(phi) == CASE phi = 0 -> 5 [] phi = 270 -> 0 [] phi = 53 -> 3
Sin5(phi) == CASE phi = 0 -> 0 [] phi = 270 -> -5 [] phi = 53 -> 4

\* matplotlib accepts the colour.
IsColor(c) == c # "notacolor"

\* Python's max and min of a non-empty array.
RECURSIVE SeqMax(_)
SeqMax(s) == IF Len(s) = 1 THEN s[1] ELSE Max(s[1], SeqMax(Tail(s)))
RECURSIVE SeqMin(_)
SeqMin(s) == IF Len(s) = 1 THEN s[1] ELSE Min(s[1], SeqMin(Tail(s)))

-----------------------------------------------------------------------------
(* The plotter.  An operation is a composition of steps on a record of     *)
(* the object's fields; a step does nothing once an exception is raised.   *)

Self ==
    [mass |-> mass, ax_injected |-> ax_injected,
     attractor_radius_scale |-> attractor_radius_scale,
     attractor_present |-> attractor_present, xarr |-> xarr, yarr |-> yarr,
     get_curr_plot_radius |-> get_curr_plot_radius, patches |-> patches,
     lines |-> lines, xlim |-> xlim, ylim |-> ylim, ani |-> ani,
     outcome |-> "ok", solved |-> <<>>, log |-> <<>>, drawnAt |-> drawnAt,
     x |-> <<>>, y |-> <<>>, pic |-> 0]

Raise(s, e) == [s EXCEPT !.outcome = e]
Event(s, e) == [s EXCEPT !.log = Append(@, e)]

\* np.array([coord[k] for coord in vals]), k counted from 0 as in the source.
Column(vals, k) == [i \in 1..Len(vals) |-> vals[i][k + 1]]

\* r * np.cos(phi) and r * np.sin(phi), elementwise.
CartesianX(vals) ==
    LET r == Column(vals, 1)  phi == Column(vals, 3)
    IN  [i \in 1..Len(r) |-> (r[i] * Cos5(phi[i])) \div 5]
CartesianY(vals) ==
    LET r == Column(vals, 1)  phi == Column(vals, 3)
    IN  [i \in 1..Len(r) |-> (r[i] * Sin5(phi[i])) \div 5]

\* Variant: the cache is extended instead of overwritten.
StoreArrExtend(old, new) == old \o new

\* The assignment self.__xarr = x (and self.__yarr = y): the new value of the cache.
StoreArr(old, new) == new

\* Variant: the cache is cleared before the solver runs.
get_x_y_ClearFirst(s, inp, fails) ==
    IF s.outcome # "ok" THEN s
    ELSE LET s1 == [Event(s, "solve") EXCEPT !.solved = Append(@, inp),
                                             !.xarr = <<>>, !.yarr = <<>>]
         IN  IF fails THEN Raise(Event(s1, "SolverError"), "SolverError")
             ELSE LET vals == calculate_trajectory(inp)
                      x == CartesianX(vals)
                      y == CartesianY(vals)
                  IN  [s1 EXCEPT !.xarr = x, !.yarr = y, !.x = x, !.y = y]

\* __get_x_y: the solver runs first; if it raises, nothing is assigned.
get_x_y(s, inp, fails) ==
    IF s.outcome # "ok" THEN s
    ELSE LET s1 == [Event(s, "solve") EXCEPT !.solved = Append(@, inp)]
         IN  IF fails THEN Raise(Event(s1, "SolverError"), "SolverError")
             ELSE LET vals == calculate_trajectory(inp)
                      x == CartesianX(vals)
                      y == CartesianY(vals)
                  IN  [s1 EXCEPT !.xarr = StoreArr(s.xarr, x),
                                 !.yarr = StoreArr(s.yarr, y),
                                 !.x = x, !.y = y]

\* mindist: np.sqrt(x * x + y * y).
mindist(x, y) == CHOOSE d \in 0..(Abs(x) + Abs(y)) : d * d = x * x + y * y

\* The loop of _draw_attractor over range(0, len(xarr)), from index i (counted from 1).
RECURSIVE MinradLoop(_, _, _, _)
MinradLoop(acc, xs, ys, i) ==
    IF i > Len(xs) THEN acc
    ELSE MinradLoop(Min(acc, mindist(xs[i], ys[i])), xs, ys, i + 1)

minrad_nooverlap(xs, ys) == MinradLoop(mindist(xs[1], ys[1]), xs, ys, 1)

\* radius * (minlen_plot / (12 * radius))
min_radius(radius, xs, ys) ==
    LET xlen == SeqMax(xs) - SeqMin(xs)
        ylen == SeqMax(ys) - SeqMin(ys)
        minlen_plot == Min(xlen, ylen)
    IN  (radius * minlen_plot) \div (12 * radius)

\* Variant: the closest approach is not taken into account.
AutoRadiusNoClamp(radius, xs, ys) == min_radius(radius, xs, ys)

\* Variant: the larger of the two candidates is taken.
AutoRadiusMax(radius, xs, ys) ==
    Max(min_radius(radius, xs, ys), minrad_nooverlap(xs, ys))

AutoRadius(radius, xs, ys) == Min(min_radius(radius, xs, ys), minrad_nooverlap(xs, ys))

\* Variant: the scale factor is not applied.
ManualRadiusUnscaled(radius, scale) == radius

ManualRadius(radius, scale) == radius * scale

AddPatch(s, radius) ==
    [Event(s, "add_patch") EXCEPT !.get_curr_plot_radius = radius,
                                  !.patches = Append(@, radius),
                                  !.drawnAt = Append(@, <<s.xarr, s.yarr>>)]

\* _draw_attractor: in auto mode self.__xarr[0] raises IndexError on an empty cache.
draw_attractor(s) ==
    LET radius == schwarzschild_radius(s.mass)
    IN  IF s.attractor_radius_scale = AUTO
        THEN IF Len(s.xarr) = 0 THEN Raise(s, "IndexError")
             ELSE AddPatch(s, AutoRadius(radius, s.xarr, s.yarr))
        ELSE AddPatch(s, ManualRadius(radius, s.attractor_radius_scale))

\* Variant: plot_attractor does not look at the flag.
NotPresentAlways(flag) == TRUE

\* The guard of plot_attractor.
NotPresent(flag) == ~flag

plot_attractor(s) ==
    IF s.outcome # "ok" THEN s
    ELSE LET s1 == Event(s, "plot_attractor")
         IN  IF NotPresent(s1.attractor_present) THEN draw_attractor(s1) ELSE s1

\* self._attractor_present = True
SetPresent(s) ==
    IF s.outcome # "ok" THEN s
    ELSE [Event(s, "flag") EXCEPT !.attractor_present = TRUE]

\* ax.plot(x, y, fmt, color=color): matplotlib raises ValueError on an invalid colour.
AxPlot(s, x, y, fmt, color) ==
    IF s.outcome # "ok" THEN s
    ELSE IF ~IsColor(color) THEN Raise(s, "ValueError")
    ELSE [Event(s, "plot") EXCEPT !.lines = Append(@, [x |-> x, y |-> y, fmt |-> fmt])]

\* Variant: plot_trajectory reuses the cached arrays instead of invoking the solver.
TrajectoryFromCache(s, inp, fails) ==
    IF s.outcome # "ok" THEN s ELSE [s EXCEPT !.x = s.xarr, !.y = s.yarr]

\* The solver invocation of plot_trajectory and its projection (lines 69-81).
TrajectorySolve(s, inp, fails) ==
    IF s.outcome # "ok" THEN s
    ELSE LET s1 == [Event(s, "solve") EXCEPT !.solved = Append(@, inp)]
         IN  IF fails THEN Raise(Event(s1, "SolverError"), "SolverError")
             ELSE LET vals == calculate_trajectory(inp)
                  IN  [s1 EXCEPT !.x = CartesianX(vals), !.y = CartesianY(vals)]

\* return lines, x[-1], y[-1]: IndexError on an empty array.
LastPoint(s) ==
    IF s.outcome # "ok" THEN s
    ELSE IF Len(s.x) = 0 THEN Raise(s, "IndexError")
    ELSE s

plot_trajectory(s, inp, color, fails) ==
    LET s1 == TrajectorySolve(s, inp, fails)
        s2 == AxPlot(s1, s1.x, s1.y, "--", color)
    IN  LastPoint(s2)

\* The marker of the final point, in the colour of the line just drawn.
PlotMarker(s) ==
    IF s.outcome # "ok" THEN s
    ELSE AxPlot(s, <<s.x[Len(s.x)]>>, <<s.y[Len(s.y)]>>, "o", "#1f77b4")

\* set_xlabel, set_ylabel, set_aspect
Labels(s) == IF s.outcome # "ok" THEN s ELSE Event(s, "labels")

plot(s, inp, color, fail1, fail2) ==
    LET s1 == get_x_y(s, inp, fail1)
        s2 == plot_attractor(s1)
        s3 == SetPresent(s2)
        s4 == plot_trajectory(s3, inp, color, fail2)
        s5 == PlotMarker(s4)
    IN  Labels(s5)

\* max(pos_x), min(pos_x): ValueError on an empty array.
Extent(s) ==
    IF s.outcome # "ok" THEN s
    ELSE IF Len(s.x) = 0 THEN Raise(s, "ValueError")
    ELSE s

\* pic, = self.ax.plot([], [], "--", color=color)
PlotPic(s, color) ==
    LET s1 == AxPlot(s, <<>>, <<>>, "--", color)
    IN  IF s1.outcome # "ok" THEN s1 ELSE [s1 EXCEPT !.pic = Len(s1.lines)]

\* The limits of animate, in tenths: margin_x is 0.1 of the x span, margin_y 0.2 of the y span.
XLimits(pos_x) ==
    LET x_max == SeqMax(pos_x)
        x_min == SeqMin(pos_x)
        margin_x10 == (x_max - x_min) * 1
    IN  <<10 * x_min - margin_x10, 10 * x_max + margin_x10>>
\* Variant: the vertical margin is 0.1 of the span, like the horizontal one.
YLimitsTenth(pos_y) ==
    LET y_max == SeqMax(pos_y)
        y_min == SeqMin(pos_y)
        margin_y10 == (y_max - y_min) * 1
    IN  <<10 * y_min - margin_y10, 10 * y_max + margin_y10>>

YLimits(pos_y) ==
    LET y_max == SeqMax(pos_y)
        y_min == SeqMin(pos_y)
        margin_y10 == (y_max - y_min) * 2
    IN  <<10 * y_min - margin_y10, 10 * y_max + margin_y10>>

\* plt.xlim(...); plt.ylim(...)
SetLimits(s) ==
    IF s.outcome # "ok" THEN s
    ELSE [Event(Event(s, "xlim"), "ylim") EXCEPT !.xlim = XLimits(s.x),
                                                  !.ylim = YLimits(s.y)]

\* frames = pos_x.shape[0]
Frames(pos_x) == Len(pos_x)

\* self.ani = FuncAnimation(self.fig, _update, frames=frames, ...): self.fig is
\* set by the constructor only when it creates the axes itself.
MakeAnimation(s) ==
    IF s.outcome # "ok" THEN s
    ELSE IF s.ax_injected THEN Raise(s, "AttributeError")
    ELSE [Event(s, "FuncAnimation") EXCEPT
             !.ani = <<[pic |-> s.pic, pos_x |-> s.x, pos_y |-> s.y,
                        frames |-> Frames(s.x)]>>]

animate(s, inp, color, fails) ==
    LET s1 == get_x_y(s, inp, fails)
        s2 == Extent(s1)
        s3 == PlotPic(s2, color)
        s4 == SetLimits(s3)
        s5 == plot_attractor(s4)
        s6 == SetPresent(s5)
        s7 == Labels(s6)
    IN  MakeAnimation(s7)

\* pos_x[: frame + 1] of the closure _update.
Prefix(pos, frame) == SubSeq(pos, 1, Min(frame + 1, Len(pos)))

\* Variant: _update reads the plotter's cached arrays instead of the captured ones.
updateFromCache(s, frame) ==
    LET a == s.ani[1]
    IN  [s EXCEPT !.lines[a.pic] = [@ EXCEPT !.x = Prefix(s.xarr, frame),
                                             !.y = Prefix(s.yarr, frame)]]

\* _update(frame): pic.set_xdata, pic.set_ydata on the arrays the closure captured.
update(s, frame) ==
    LET a == s.ani[1]
    IN  [s EXCEPT !.lines[a.pic] = [@ EXCEPT !.x = Prefix(a.pos_x, frame),
                                             !.y = Prefix(a.pos_y, frame)]]

-----------------------------------------------------------------------------
(* The state machine *)

Init ==
    /\ mass \in Masses
    /\ ax_injected \in BOOLEAN
    /\ attractor_radius_scale \in Scales
    /\ attractor_present = FALSE
    /\ xarr = <<>>
    /\ yarr = <<>>
    /\ get_curr_plot_radius = 0
    /\ patches = <<>>
    /\ lines = <<>>
    /\ xlim = <<0, 10>>
    /\ ylim = <<0, 10>>
    /\ ani = <<>>
    /\ op = "init"
    /\ outcome = "ok"
    /\ arg = <<>>
    /\ solved = <<>>
    /\ log = <<>>
    /\ drawnAt = <<>>
    /\ lastFrame = <<>>
    /\ aniArg = <<>>
    /\ ncalls = 0

\* The fields of the object after an operation that ended in record s.
Becomes(s) ==
    /\ attractor_present' = s.attractor_present
    /\ xarr' = s.xarr
    /\ yarr' = s.yarr
    /\ get_curr_plot_radius' = s.get_curr_plot_radius
    /\ patches' = s.patches
    /\ lines' = s.lines
    /\ xlim' = s.xlim
    /\ ylim' = s.ylim
    /\ ani' = s.ani
    /\ outcome' = s.outcome
    /\ solved' = s.solved
    /\ log' = s.log
    /\ drawnAt' = s.drawnAt
    /\ UNCHANGED <<mass, ax_injected, attractor_radius_scale>>

Plot ==
    /\ ncalls < MaxCalls
    /\ \E inp \in Inputs, color \in Colors, fail1 \in BOOLEAN, fail2 \in BOOLEAN :
          /\ Becomes(plot(Self, inp, color, fail1, fail2))
          /\ arg' = <<inp>>
    /\ op' = "plot"
    /\ ncalls' = ncalls + 1
    /\ UNCHANGED <<lastFrame, aniArg>>

Animate ==
    /\ ncalls < MaxCalls
    /\ \E inp \in Inputs, color \in Colors, fails \in BOOLEAN :
          /\ Becomes(animate(Self, inp, color, fails))
          /\ arg' = <<inp>>
          /\ aniArg' = IF animate(Self, inp, color, fails).outcome = "ok"
                          THEN <<inp>> ELSE aniArg
    /\ op' = "animate"
    /\ ncalls' = ncalls + 1
    /\ UNCHANGED lastFrame

\* A caller invokes the public plot_attractor itself.
PlotAttractor ==
    /\ Len(patches) < MaxPatches
    /\ Becomes(plot_attractor(Self))
    /\ arg' = <<>>
    /\ op' = "plot_attractor"
    /\ UNCHANGED <<ncalls, lastFrame, aniArg>>

\* The animation (self.ani) renders one of its frames: range(frames).
Update ==
    /\ ani # <<>>
    /\ \E frame \in 0..(ani[1].frames - 1) :
          /\ Becomes(update(Self, frame))
          /\ lastFrame' = <<frame>>
    /\ arg' = <<>>
    /\ op' = "update"
    /\ UNCHANGED <<ncalls, aniArg>>

Next == Plot \/ Animate \/ PlotAttractor \/ Update

Spec == Init /\ [][Next]_vars

\* Callers that use plot and animate only.
NextAPI == Plot \/ Animate \/ Update

SpecAPI == Init /\ [][NextAPI]_vars

-----------------------------------------------------------------------------
(* Properties *)

HasEvent(l, e) == \E i \in 1..Len(l) : l[i] = e
EventIdx(l, e) == {i \in 1..Len(l) : l[i] = e}
IsCall == op \in {"plot", "animate"}

\* The samples the solver gives for an input, projected as the specification
\* states it: x_i = r_i cos(phi_i), y_i = r_i sin(phi_i).
SamplesX(inp) ==
    LET vals == calculate_trajectory(inp)
    IN  [i \in 1..Len(vals) |-> (vals[i][2] * Cos5(vals[i][4])) \div 5]
SamplesY(inp) ==
    LET vals == calculate_trajectory(inp)
    IN  [i \in 1..Len(vals) |-> (vals[i][2] * Sin5(vals[i][4])) \div 5]

Range(s) == {s[i] : i \in 1..Len(s)}
SetMax(S) == CHOOSE m \in S : \A v \in S : v <= m
SetMin(S) == CHOOSE m \in S : \A v \in S : m <= v

\* d_min and span/12 of a non-empty trajectory.
DMin(xs, ys) == SetMin({mindist(xs[i], ys[i]) : i \in 1..Len(xs)})
Span(xs, ys) ==
    Min(SetMax(Range(xs)) - SetMin(Range(xs)), SetMax(Range(ys)) - SetMin(Range(ys)))
Span12(xs, ys) == Span(xs, ys) \div 12

\* C1: with plot and animate calls only, at most one disc is ever on the
\* surface; the flag never goes back to false; it goes from false to true in
\* exactly the first call that completes its attractor step, and a disc is
\* added only in a step that takes the flag from false to true.
C1_AttractorOnce ==
    [][ /\ Len(patches') <= 1
        /\ attractor_present => attractor_present'
        /\ attractor_present' =
              (attractor_present
                 \/ (HasEvent(log', "plot_attractor")
                       /\ (attractor_present \/ HasEvent(log', "add_patch"))))
        /\ patches' # patches => (~attractor_present /\ attractor_present')
      ]_vars

\* C1 witness: a second call ran its attractor step with the disc already drawn.
C1_Witness ==
    /\ ncalls = 2
    /\ IsCall /\ outcome = "ok"
    /\ attractor_present
    /\ Len(patches) = 1
    /\ HasEvent(log, "plot_attractor")
    /\ ~HasEvent(log, "add_patch")

\* C2 (as claimed): once a disc has been drawn from non-empty trajectory data,
\* no later step draws a disc or changes the cached radius, whoever calls
\* plot_attractor.
C2_LaterDrawsAreNoops ==
    [][ (\E i \in 1..Len(drawnAt) : Len(drawnAt[i][1]) > 0)
          => (patches' = patches /\ get_curr_plot_radius' = get_curr_plot_radius)
      ]_vars

\* C3: in auto mode every disc has the radius min(span/12, d_min) of the
\* trajectory cached when it was drawn, so at most d_min and at most span/12,
\* and the radius of the last disc is the one kept in get_curr_plot_radius.
C3_AutoRadius ==
    attractor_radius_scale = AUTO =>
        /\ \A i \in 1..Len(patches) :
              LET xs == drawnAt[i][1]
                  ys == drawnAt[i][2]
              IN  /\ Len(xs) > 0
                  /\ patches[i] = Min(Span12(xs, ys), DMin(xs, ys))
                  /\ patches[i] <= DMin(xs, ys)
                  /\ patches[i] <= Span12(xs, ys)
        /\ (IsCall /\ HasEvent(log, "add_patch")) =>
              /\ drawnAt[Len(drawnAt)] = <<SamplesX(arg[1]), SamplesY(arg[1])>>
              /\ get_curr_plot_radius = patches[Len(patches)]
        /\ patches # <<>> => get_curr_plot_radius = patches[Len(patches)]

\* C3 witness: a disc drawn in auto mode whose radius is the closest approach,
\* which is smaller than span/12.
C3_Witness ==
    /\ attractor_radius_scale = AUTO
    /\ IsCall /\ HasEvent(log, "add_patch")
    /\ get_curr_plot_radius = DMin(xarr, yarr)
    /\ DMin(xarr, yarr) < Span12(xarr, yarr)

\* The distance of every sample of every line on the surface is at least rad.
ClearOfLines(rad) ==
    \A k \in 1..Len(lines) : \A j \in 1..Len(lines[k].x) :
        rad <= mindist(lines[k].x[j], lines[k].y[j])

\* C4 (as claimed): in auto mode the disc's radius is at most the distance
\* from the origin of every sample of every trajectory plotted on the surface.
C4_NoOverlapAnyTrajectory ==
    attractor_radius_scale = AUTO =>
        \A i \in 1..Len(patches) : ClearOfLines(patches[i])

\* C4 (amended): in auto mode the disc's radius is at most the distance from
\* the origin of every sample of the trajectory of the call that drew it.
C4_NoOverlapOwnTrajectory ==
    attractor_radius_scale = AUTO =>
        /\ \A i \in 1..Len(patches) : \A j \in 1..Len(drawnAt[i][1]) :
              patches[i] <= mindist(drawnAt[i][1][j], drawnAt[i][2][j])
        /\ (IsCall /\ HasEvent(log, "add_patch")) =>
              \A j \in 1..Len(SamplesX(arg[1])) :
                  patches[Len(patches)]
                      <= mindist(SamplesX(arg[1])[j], SamplesY(arg[1])[j])

\* C4 witness: a disc of positive radius drawn in auto mode by a plot call
\* whose trajectory is on the surface.
C4_Witness ==
    /\ attractor_radius_scale = AUTO
    /\ op = "plot" /\ outcome = "ok"
    /\ HasEvent(log, "add_patch")
    /\ patches[1] > 0
    /\ Len(lines[1].x) > 1

\* C5: in manual mode every disc has the radius R_s * scale, whatever the
\* cached samples (also none), and that is the value in get_curr_plot_radius.
C5_ManualRadius ==
    attractor_radius_scale # AUTO =>
        /\ \A i \in 1..Len(patches) :
              patches[i] = schwarzschild_radius(mass) * attractor_radius_scale
        /\ patches # <<>> =>
              get_curr_plot_radius = schwarzschild_radius(mass) * attractor_radius_scale

\* C5 witness: manual mode, one disc drawn on an empty cache and one on a
\* non-empty cache.
C5_Witness ==
    /\ attractor_radius_scale # AUTO
    /\ Len(patches) = 2
    /\ drawnAt[1][1] = <<>>
    /\ drawnAt[2][1] # <<>>

C7_Cache ==
    /\ Len(xarr) = Len(yarr)
    /\ (IsCall /\ outcome = "ok") =>
          /\ xarr = SamplesX(arg[1])
          /\ yarr = SamplesY(arg[1])
          /\ Len(xarr) = Len(calculate_trajectory(arg[1]))

\* C7 witness: a second successful call whose trajectory is shorter than the
\* first call's.
C7_Witness ==
    /\ ncalls = 2
    /\ op = "plot" /\ outcome = "ok"
    /\ Len(lines) >= 3
    /\ Len(xarr) > 0
    /\ Len(lines[1].x) > Len(xarr)

\* C8: a solver failure ends the call with SolverError and no further solver
\* invocation; when it is the first invocation of the call, the flag, the
\* cache, the radius and the surface are as before the call.
C8_SolverFailure ==
    [][ (op' \in {"plot", "animate"} /\ HasEvent(log', "SolverError")) =>
          /\ outcome' = "SolverError"
          /\ log'[Len(log')] = "SolverError"
          /\ log'[Len(log') - 1] = "solve"
          /\ Cardinality(EventIdx(log', "SolverError")) = 1
          /\ Cardinality(EventIdx(log', "solve")) = Len(solved')
          /\ Len(solved') = 1 =>
                UNCHANGED <<attractor_present, xarr, yarr, get_curr_plot_radius,
                            patches, lines, xlim, ylim, ani>>
      ]_vars

\* C8 witness: the first solver invocation of a plot call failed on a plotter
\* that already had a disc and cached samples.
C8_Witness ==
    /\ op = "plot"
    /\ outcome = "SolverError"
    /\ Len(solved) = 1
    /\ attractor_present
    /\ xarr # <<>>
    /\ patches # <<>>

\* C9: animate sets the limits (in tenths) to min - 0.1 span and max + 0.1 span
\* horizontally, min - 0.2 span and max + 0.2 span vertically, over the samples
\* of that call, before any disc is drawn in that call.
C9_Limits ==
    (op = "animate" /\ HasEvent(log, "xlim")) =>
        LET X == Range(SamplesX(arg[1]))
            Y == Range(SamplesY(arg[1]))
            span_x == SetMax(X) - SetMin(X)
            span_y == SetMax(Y) - SetMin(Y)
        IN  /\ xlim = <<10 * SetMin(X) - span_x, 10 * SetMax(X) + span_x>>
            /\ ylim = <<10 * SetMin(Y) - 2 * span_y, 10 * SetMax(Y) + 2 * span_y>>
            /\ HasEvent(log, "ylim")
            /\ \A i \in EventIdx(log, "add_patch") :
                  \A j \in EventIdx(log, "xlim") \cup EventIdx(log, "ylim") : j < i

\* C9 witness: an animate call over a trajectory of positive spans that drew the disc.
C9_Witness ==
    /\ op = "animate" /\ outcome = "ok"
    /\ HasEvent(log, "add_patch")
    /\ xlim[1] < 10 * SeqMin(xarr)
    /\ ylim[2] > 10 * SeqMax(yarr)

\* C10: a successful plot invokes the solver twice with the call's input, once
\* before the attractor step and once after the flag is set; a successful
\* animate invokes it once, before the attractor step.
C10_SolverCalls ==
    /\ (op = "plot" /\ outcome = "ok") =>
          /\ solved = <<arg[1], arg[1]>>
          /\ Cardinality(EventIdx(log, "solve")) = 2
          /\ \E i, j \in EventIdx(log, "solve") :
                /\ \A a \in EventIdx(log, "plot_attractor") : i < a
                /\ \A f \in EventIdx(log, "flag") : f < j
          /\ Cardinality(EventIdx(log, "flag")) = 1
    /\ (op = "animate" /\ outcome = "ok") =>
          /\ solved = <<arg[1]>>
          /\ EventIdx(log, "solve") = {1}
          /\ Cardinality(EventIdx(log, "plot_attractor")) = 1

\* C10 witness: a successful plot call that drew the disc.
C10_Witness ==
    /\ op = "plot" /\ outcome = "ok"
    /\ HasEvent(log, "add_patch")
    /\ Len(solved) = 2

====
